---- MODULE Spec2Model ----
(***************************************************************************)
(* Model of py2c/tree/visitors.py: BaseTreeVisitor.visit (dispatch),       *)
(* RecursiveTreeVisitor (read-only traversal) and RecursiveTreeTransformer *)
(* (mutating traversal).  The Python call stack is explicit: `stack` holds *)
(* one frame per active call, the top frame is the running one, and `ret`  *)
(* is the value the last finished call returned.                           *)
(***************************************************************************)
EXTENDS Integers, Sequences, FiniteSets, TLC

\* Number of Nodes of the tree handed to visit(); node 1 is the root.
MaxNodes == 4

Nodes == 1..MaxNodes
\* Two Nodes that are in no tree: the ones a handler returns as a replacement
\* or as the elements of a spliced sequence.
X == MaxNodes + 1
Y == MaxNodes + 2
AllNodes == 1..Y

(***************************************************************************)
(* Python values.  Every value is a record of the same shape.              *)
(***************************************************************************)
Value(k, id, items) == [k |-> k, id |-> id, items |-> items]
\* Python's None (what a function without `return` yields; also the stored
\* "no value").
None == Value("None", 0, <<>>)
\* BaseTreeVisitor.NONE_SENTINEL = object()
NONE_SENTINEL == Value("NONE_SENTINEL", 0, <<>>)
\* An attribute that is not set on the node.
Absent == Value("absent", 0, <<>>)
\* A leaf value (a str, an int): neither a list nor a Node.
Leaf == Value("leaf", 0, <<>>)
NodeRef(n) == Value("Node", n, <<>>)
List(items) == Value("list", 0, items)

\* isinstance(value, list)
IsList(v) == v.k = "list"
\* isinstance(value, self.root_class)
IsNode(v) == v.k = "Node"
\* isinstance(value, collections.Iterable), for the values a handler returns
IsIterable(v) == v.k = "list"

\* The fields every node type declares, in declaration order.
FieldNames == <<"left", "right", "body">>
NumFields == Len(FieldNames)

\* node.__class__.__name__
Tags == {"A", "B", "Z"}
ClassName(v) == IF ~IsNode(v) THEN "str" ELSE IF v.id % 2 = 1 THEN "A" ELSE "B"

VARIABLES
  mode,       \* which class the traversal object is: "base", "visitor", "transformer"
  registered, \* the tags T for which the object has a visit_T method
  recurse,    \* recurse[T]: visit_T calls self.children_visit(node)
  result,     \* result[T]: what visit_T returns
  fields,     \* fields[n][i]: the value of attribute FieldNames[i] of node n
  fields0,    \* the tree as it was handed to visit()
  stack,      \* the call stack
  ret,        \* the return value of the last finished call
  status,     \* "running", "done", or "NotImplementedError"
  calls,      \* the arguments of the visit() calls, in call order
  invoked,    \* the handlers that started to run, in order
  returns,    \* per finished visit(): what the handler returned, what visit returned
  rets        \* rets[n][i]: what visit() returned for the children in field i of n

vars == <<mode, registered, recurse, result, fields, fields0, stack, ret, status,
          calls, invoked, returns, rets>>

config == <<mode, registered, recurse, result, fields0>>

(***************************************************************************)
(* Trees.  Node n > 1 hangs under node 1 or node n-1.  A node keeps its    *)
(* children either in left, right and the rest in body, or all in body     *)
(* (with a leaf in left, and a leaf element in the list of a "B" node).    *)
(***************************************************************************)
RECURSIVE ChildrenFrom(_, _, _)
ChildrenFrom(parent, n, c) ==
  IF c > MaxNodes THEN <<>>
  ELSE (IF parent[c] = n THEN <<NodeRef(c)>> ELSE <<>>) \o ChildrenFrom(parent, n, c + 1)

Children(parent, n) == ChildrenFrom(parent, n, 2)

NodeFields(parent, inList, n) ==
  LET ch == Children(parent, n) IN
  IF ch # <<>> /\ inList[n]
  THEN <<Leaf, Absent,
         List(ch \o (IF ClassName(NodeRef(n)) = "B" THEN <<Leaf>> ELSE <<>>))>>
  ELSE <<IF Len(ch) >= 1 THEN ch[1] ELSE Absent,
         IF Len(ch) >= 2 THEN ch[2] ELSE Absent,
         List(IF Len(ch) >= 3 THEN SubSeq(ch, 3, Len(ch)) ELSE <<>>)>>

Tree(parent, inList) ==
  [n \in AllNodes |->
     IF n \in Nodes THEN NodeFields(parent, inList, n) ELSE <<Absent, Absent, List(<<>>)>>]

Parents == {p \in [2..MaxNodes -> Nodes] : \A c \in 2..MaxNodes : p[c] \in {1, c - 1}}

(***************************************************************************)
(* Handlers.  A visit_T method is code of the pass author: it may call     *)
(* children_visit(node) once and returns one of the edit outcomes: the     *)
(* node itself, a new Node, a Node that is elsewhere in the tree, None,    *)
(* NONE_SENTINEL, an empty sequence or a sequence of two new Nodes.        *)
(***************************************************************************)
Outcomes == {"keep", "replace", "graft", "delete", "null", "empty", "splice"}

HandlerResult(node) ==
  LET o == result[ClassName(node)] IN
  CASE o = "keep"    -> node
    [] o = "replace" -> NodeRef(X)
    [] o = "graft"   -> NodeRef(MaxNodes)
    [] o = "delete"  -> None
    [] o = "null"    -> NONE_SENTINEL
    [] o = "empty"   -> List(<<>>)
    [] o = "splice"  -> List(<<NodeRef(X), NodeRef(Y)>>)

(***************************************************************************)
(* Frames                                                                  *)
(***************************************************************************)
Frame(op, node, pc) == [op |-> op, node |-> node, pc |-> pc, fi |-> 1, i |-> 1,
                        new_list |-> <<>>]

Top == stack[Len(stack)]
Pop == SubSeq(stack, 1, Len(stack) - 1)
Running(op) == status = "running" /\ stack # <<>> /\ Top.op = op
SetTop(fr) == [stack EXCEPT ![Len(stack)] = fr]
Call(fr, callee) == Append(SetTop(fr), callee)

Init ==
  /\ mode \in {"base", "visitor", "transformer"}
  /\ registered \in {{}} \cup {R \cup {"Z"} : R \in SUBSET {"A", "B"}}
  /\ recurse \in [Tags -> BOOLEAN]
  /\ result \in [Tags -> Outcomes]
  /\ \A t \in Tags : t \notin registered \/ t = "Z" => ~recurse[t] /\ result[t] = "delete"
  /\ mode # "transformer" => \A t \in Tags : result[t] = "delete"
  /\ \E parent \in Parents, inList \in [Nodes -> BOOLEAN] : fields0 = Tree(parent, inList)
  /\ fields = fields0
  /\ stack = <<Frame("visit", NodeRef(1), "call")>>
  /\ ret = None
  /\ status = "running"
  /\ calls = <<>>
  /\ invoked = <<>>
  /\ returns = <<>>
  /\ rets = [n \in AllNodes |-> [i \in 1..NumFields |-> <<>>]]

(***************************************************************************)
(* Node Field Protocol (py2c.tree.iter_fields, setattr, delattr)           *)
(***************************************************************************)
\* iter_fields(node) reports field i: the declared fields in order, those
\* that are set.
Reported(fs, node, i) == IsNode(node) /\ fs[node.id][i] # Absent
\* getattr(node, field, None)
GetAttr(fs, node, i) == IF fs[node.id][i] = Absent THEN None ELSE fs[node.id][i]
\* delattr(node, field)
DelAttr(fs, node, i) == [fs EXCEPT ![node.id][i] = Absent]
\* setattr(node, field, value)
SetAttr(fs, node, i, value) == [fs EXCEPT ![node.id][i] = value]

(***************************************************************************)
(* BaseTreeVisitor                                                         *)
(***************************************************************************)
MethodName(tag) ==
  CASE tag = "A" -> "visit_A"
    [] tag = "B" -> "visit_B"
    [] tag = "Z" -> "visit_Z"
    [] OTHER     -> "visit_str"

Handlers == {MethodName(t) : t \in Tags}

\* Resolve that never looks the visit_T method up.
Resolve_AlwaysGeneric(node) == "generic_visit"

\* visitor = getattr(self, 'visit_' + node.__class__.__name__, self.generic_visit)
Resolve(node) ==
  IF ClassName(node) \in registered THEN MethodName(ClassName(node)) ELSE "generic_visit"

\* return visitor(node)
VisitResult(r) == r

\* visit(node), up to the call of the handler
visit_call ==
  /\ Running("visit") /\ Top.pc = "call"
  /\ calls' = Append(calls, Top.node)
  /\ stack' = Call([Top EXCEPT !.pc = "return"], Frame(Resolve(Top.node), Top.node, "call"))
  /\ UNCHANGED <<config, fields, ret, status, invoked, returns, rets>>

\* visit(node), from the return of the handler
visit_return ==
  /\ Running("visit") /\ Top.pc = "return"
  /\ ret' = VisitResult(ret)
  /\ returns' = Append(returns, [node |-> Top.node, handler |-> ret, visit |-> ret'])
  /\ stack' = Pop
  /\ status' = IF stack' = <<>> THEN "done" ELSE status
  /\ UNCHANGED <<config, fields, calls, invoked, rets>>

\* A visit_T method of the pass: optionally children_visit(node), then its result.
handler_call ==
  /\ status = "running" /\ stack # <<>> /\ Top.op \in Handlers /\ Top.pc = "call"
  /\ invoked' = Append(invoked, [node |-> Top.node, handler |-> Top.op])
  /\ IF recurse[ClassName(Top.node)]
     THEN /\ stack' = Call([Top EXCEPT !.pc = "return"],
                           Frame("children_visit", Top.node, "loop"))
          /\ ret' = ret
     ELSE /\ stack' = Pop
          /\ ret' = HandlerResult(Top.node)
  /\ UNCHANGED <<config, fields, status, calls, returns, rets>>

handler_return ==
  /\ status = "running" /\ stack # <<>> /\ Top.op \in Handlers /\ Top.pc = "return"
  /\ stack' = Pop
  /\ ret' = HandlerResult(Top.node)
  /\ UNCHANGED <<config, fields, status, calls, invoked, returns, rets>>

\* children_visit of the base class as a method that silently does nothing.
BaseTreeVisitor_children_visit_Silent ==
  /\ Running("children_visit") /\ mode = "base"
  /\ stack' = Pop
  /\ ret' = None
  /\ UNCHANGED <<config, fields, status, calls, invoked, returns, rets>>

\* BaseTreeVisitor.children_visit: raise NotImplementedError()
BaseTreeVisitor_children_visit ==
  /\ Running("children_visit") /\ mode = "base"
  /\ status' = "NotImplementedError"
  /\ stack' = <<>>
  /\ UNCHANGED <<config, fields, ret, calls, invoked, returns, rets>>

\* BaseTreeVisitor.generic_visit: the abstract method, whose body is `pass`
BaseTreeVisitor_generic_visit ==
  /\ Running("generic_visit") /\ mode = "base"
  /\ invoked' = Append(invoked, [node |-> Top.node, handler |-> Top.op])
  /\ stack' = Pop
  /\ ret' = None
  /\ UNCHANGED <<config, fields, status, calls, returns, rets>>

(***************************************************************************)
(* RecursiveTreeVisitor                                                    *)
(***************************************************************************)
\* Element for a loop that walks the list from its end.
Element_Reversed(original_list, i) ==
  original_list.items[Len(original_list.items) + 1 - i]

\* for value in original_list: the element the loop is at
Element(original_list, i) == original_list.items[i]

\* One iteration of the loop of RecursiveTreeVisitor.children_visit, or its end.
RecursiveTreeVisitor_children_visit ==
  /\ Running("children_visit") /\ mode = "visitor"
  /\ LET fr == Top
         next == [fr EXCEPT !.fi = fr.fi + 1]
         value == GetAttr(fields, fr.node, fr.fi)
     IN IF fr.fi > NumFields
        THEN stack' = Pop /\ ret' = None
        ELSE /\ ret' = ret
             /\ IF ~Reported(fields, fr.node, fr.fi) THEN stack' = SetTop(next)
                ELSE IF IsList(value)
                THEN stack' = Call(next, [Frame("_visit_list", fr.node, "loop")
                                            EXCEPT !.fi = fr.fi])
                ELSE IF IsNode(value)
                THEN stack' = Call(next, Frame("visit", value, "call"))
                ELSE stack' = SetTop(next)
  /\ UNCHANGED <<config, fields, status, calls, invoked, returns, rets>>

\* _visit_list of the read-only traversal without the isinstance test: every
\* element is passed to visit().
RecursiveTreeVisitor_visit_list_NoTest ==
  /\ Running("_visit_list") /\ mode = "visitor"
  /\ LET fr == Top
         next == [fr EXCEPT !.i = fr.i + 1]
         original_list == fields[fr.node.id][fr.fi]
     IN IF fr.i > Len(original_list.items)
        THEN stack' = Pop /\ ret' = None
        ELSE /\ ret' = ret
             /\ stack' = Call(next, Frame("visit", Element(original_list, fr.i), "call"))
  /\ UNCHANGED <<config, fields, status, calls, invoked, returns, rets>>

\* One iteration of the loop of RecursiveTreeVisitor._visit_list, or its end.
RecursiveTreeVisitor_visit_list ==
  /\ Running("_visit_list") /\ mode = "visitor"
  /\ LET fr == Top
         next == [fr EXCEPT !.i = fr.i + 1]
         original_list == fields[fr.node.id][fr.fi]
     IN IF fr.i > Len(original_list.items)
        THEN stack' = Pop /\ ret' = None
        ELSE /\ ret' = ret
             /\ IF IsNode(Element(original_list, fr.i))
                THEN stack' = Call(next, Frame("visit", Element(original_list, fr.i), "call"))
                ELSE stack' = SetTop(next)
  /\ UNCHANGED <<config, fields, status, calls, invoked, returns, rets>>

\* RecursiveTreeVisitor.generic_visit: self.children_visit(node)
RecursiveTreeVisitor_generic_visit ==
  /\ Running("generic_visit") /\ mode = "visitor"
  /\ IF Top.pc = "call"
     THEN /\ invoked' = Append(invoked, [node |-> Top.node, handler |-> Top.op])
          /\ stack' = Call([Top EXCEPT !.pc = "return"],
                           Frame("children_visit", Top.node, "loop"))
          /\ ret' = ret
     ELSE /\ invoked' = invoked
          /\ stack' = Pop
          /\ ret' = None
  /\ UNCHANGED <<config, fields, status, calls, returns, rets>>

(***************************************************************************)
(* RecursiveTreeTransformer                                                *)
(***************************************************************************)
\* AssignField with the explicit-null outcome handled like the delete outcome
\* of ast.NodeTransformer: the attribute is removed and nothing is stored.
AssignField_NullRemoves(fs, node, i, new_node) ==
  IF new_node = None \/ new_node = NONE_SENTINEL
  THEN DelAttr(fs, node, i)
  ELSE SetAttr(fs, node, i, new_node)

\* children_visit, after new_node = self.visit(old_value):
\*     if new_node is None: delattr(node, field)
\*     elif new_node is self.NONE_SENTINEL: new_node = None
\*     setattr(node, field, new_node)
AssignField(fs, node, i, new_node) ==
  LET deleted == IF new_node = None THEN DelAttr(fs, node, i) ELSE fs
      value == IF new_node # None /\ new_node = NONE_SENTINEL THEN None ELSE new_node
  IN SetAttr(deleted, node, i, value)

\* Rebuild with the explicit-null outcome dropped like a deleted element.
Rebuild_DropsNull(new_list, value) ==
  IF value = None \/ value = NONE_SENTINEL THEN new_list
  ELSE IF IsIterable(value) THEN new_list \o value.items
  ELSE Append(new_list, value)

\* _visit_list, after value = self.visit(value): what new_list becomes
Rebuild(new_list, value) ==
  IF value = None THEN new_list
  ELSE IF value = NONE_SENTINEL THEN Append(new_list, None)
  ELSE IF IsIterable(value) THEN new_list \o value.items
  ELSE Append(new_list, value)

\* original_list[:] = new_list
SliceAssign(fs, node, i, new_list) == [fs EXCEPT ![node.id][i] = List(new_list)]

\* One iteration of the loop of RecursiveTreeTransformer.children_visit (up to
\* the call of visit, or from its return), or the end of the loop.
RecursiveTreeTransformer_children_visit ==
  /\ Running("children_visit") /\ mode = "transformer"
  /\ LET fr == Top
         next == [fr EXCEPT !.fi = fr.fi + 1, !.pc = "loop"]
         old_value == fields[fr.node.id][fr.fi]
     IN IF fr.pc = "assign"
        THEN /\ fields' = AssignField(fields, fr.node, fr.fi, ret)
             /\ rets' = [rets EXCEPT ![fr.node.id][fr.fi] = Append(@, ret)]
             /\ stack' = SetTop(next)
             /\ ret' = ret
        ELSE /\ UNCHANGED <<fields, rets>>
             /\ IF fr.fi > NumFields
                THEN stack' = Pop /\ ret' = None
                ELSE /\ ret' = ret
                     /\ IF ~Reported(fields, fr.node, fr.fi) THEN stack' = SetTop(next)
                        ELSE IF IsList(old_value)
                        THEN stack' = Call(next, [Frame("_visit_list", fr.node, "loop")
                                                    EXCEPT !.fi = fr.fi])
                        ELSE IF IsNode(old_value)
                        THEN stack' = Call([fr EXCEPT !.pc = "assign"],
                                           Frame("visit", old_value, "call"))
                        ELSE stack' = SetTop(next)
  /\ UNCHANGED <<config, status, calls, invoked, returns>>

\* _visit_list of the mutating traversal splicing in place: each outcome is
\* written into the list being iterated (original_list[i:i+1] = ...), and the
\* loop goes on to the next index of the list as it then is.
RecursiveTreeTransformer_visit_list_InPlace ==
  /\ Running("_visit_list") /\ mode = "transformer"
  /\ LET fr == Top
         original_list == fields[fr.node.id][fr.fi]
         items == original_list.items
     IN IF fr.pc = "append"
        THEN /\ stack' = SetTop([fr EXCEPT !.i = fr.i + 1, !.pc = "loop"])
             /\ fields' = SliceAssign(fields, fr.node, fr.fi,
                            Rebuild(SubSeq(items, 1, fr.i - 1), ret)
                              \o SubSeq(items, fr.i + 1, Len(items)))
             /\ rets' = [rets EXCEPT ![fr.node.id][fr.fi] = Append(@, ret)]
             /\ ret' = ret
        ELSE IF fr.i > Len(items)
        THEN /\ stack' = Pop
             /\ ret' = None
             /\ UNCHANGED <<fields, rets>>
        ELSE IF IsNode(Element(original_list, fr.i))
        THEN /\ stack' = Call([fr EXCEPT !.pc = "append"],
                              Frame("visit", Element(original_list, fr.i), "call"))
             /\ UNCHANGED <<fields, ret, rets>>
        ELSE /\ stack' = SetTop([fr EXCEPT !.i = fr.i + 1])
             /\ rets' = [rets EXCEPT ![fr.node.id][fr.fi] = Append(@, Absent)]
             /\ UNCHANGED <<fields, ret>>
  /\ UNCHANGED <<config, status, calls, invoked, returns>>

\* One iteration of the loop of RecursiveTreeTransformer._visit_list (up to the
\* call of visit, or from its return), or the slice assignment that ends it.
RecursiveTreeTransformer_visit_list ==
  /\ Running("_visit_list") /\ mode = "transformer"
  /\ LET fr == Top
         original_list == fields[fr.node.id][fr.fi]
     IN IF fr.pc = "append"
        THEN /\ stack' = SetTop([fr EXCEPT !.i = fr.i + 1, !.pc = "loop",
                                           !.new_list = Rebuild(fr.new_list, ret)])
             /\ rets' = [rets EXCEPT ![fr.node.id][fr.fi] = Append(@, ret)]
             /\ UNCHANGED <<fields, ret>>
        ELSE IF fr.i > Len(original_list.items)
        THEN /\ fields' = SliceAssign(fields, fr.node, fr.fi, fr.new_list)
             /\ stack' = Pop
             /\ ret' = None
             /\ rets' = rets
        ELSE IF IsNode(Element(original_list, fr.i))
        THEN /\ stack' = Call([fr EXCEPT !.pc = "append"],
                              Frame("visit", Element(original_list, fr.i), "call"))
             /\ UNCHANGED <<fields, ret, rets>>
        ELSE /\ stack' = SetTop([fr EXCEPT !.i = fr.i + 1,
                                   !.new_list = Append(fr.new_list, Element(original_list, fr.i))])
             /\ rets' = [rets EXCEPT ![fr.node.id][fr.fi] = Append(@, Absent)]
             /\ UNCHANGED <<fields, ret>>
  /\ UNCHANGED <<config, status, calls, invoked, returns>>

\* RecursiveTreeTransformer.generic_visit: self.children_visit(node), no return
RecursiveTreeTransformer_generic_visit ==
  /\ Running("generic_visit") /\ mode = "transformer"
  /\ IF Top.pc = "call"
     THEN /\ invoked' = Append(invoked, [node |-> Top.node, handler |-> Top.op])
          /\ stack' = Call([Top EXCEPT !.pc = "return"],
                           Frame("children_visit", Top.node, "loop"))
          /\ ret' = ret
     ELSE /\ invoked' = invoked
          /\ stack' = Pop
          /\ ret' = None
  /\ UNCHANGED <<config, fields, status, calls, returns, rets>>

Next ==
  \/ visit_call
  \/ visit_return
  \/ handler_call
  \/ handler_return
  \/ BaseTreeVisitor_children_visit
  \/ BaseTreeVisitor_generic_visit
  \/ RecursiveTreeVisitor_children_visit
  \/ RecursiveTreeVisitor_visit_list
  \/ RecursiveTreeVisitor_generic_visit
  \/ RecursiveTreeTransformer_children_visit
  \/ RecursiveTreeTransformer_visit_list
  \/ RecursiveTreeTransformer_generic_visit

Spec == Init /\ [][Next]_vars

(***************************************************************************)
(* What the claims speak of                                                *)
(***************************************************************************)
\* The Nodes a value holds: the Node itself, or the Nodes of a list, in order.
RECURSIVE NodesOfList(_, _)
NodesOfList(items, k) ==
  IF k > Len(items) THEN <<>>
  ELSE (IF IsNode(items[k]) THEN <<items[k].id>> ELSE <<>>) \o NodesOfList(items, k + 1)

NodesOf(v) == IF IsNode(v) THEN <<v.id>> ELSE IF IsList(v) THEN NodesOfList(v.items, 1) ELSE <<>>

\* The children of node n in tree fs: field order, and list order within a list.
RECURSIVE ChildSeqFrom(_, _, _)
ChildSeqFrom(fs, n, i) ==
  IF i > NumFields THEN <<>> ELSE NodesOf(fs[n][i]) \o ChildSeqFrom(fs, n, i + 1)

ChildSeq(fs, n) == ChildSeqFrom(fs, n, 1)

Range(seq) == {seq[k] : k \in 1..Len(seq)}

\* Depth-first, parent first: n, then the whole subtree of each child in turn.
RECURSIVE Preorder(_, _), PreorderOfAll(_, _, _)
Preorder(fs, n) == <<NodeRef(n)>> \o PreorderOfAll(fs, ChildSeq(fs, n), 1)
PreorderOfAll(fs, ch, k) ==
  IF k > Len(ch) THEN <<>> ELSE Preorder(fs, ch[k]) \o PreorderOfAll(fs, ch, k + 1)

IsPrefix(s, t) == Len(s) <= Len(t) /\ SubSeq(t, 1, Len(s)) = s
NoDuplicates(s) == \A j, k \in 1..Len(s) : j # k => s[j] # s[k]

\* No visit_T method exists for a type that occurs in a tree.
OnlyGenericFallback == registered \cap {"A", "B"} = {}

\* A frame of _visit_list over field i of node n is active.
InVisitList(n, i) ==
  \E d \in 1..Len(stack) :
    stack[d].op = "_visit_list" /\ stack[d].node = NodeRef(n) /\ stack[d].fi = i

\* The single-child fields for which visit() returned r in children_visit.
Edited(n, i, r) == mode = "transformer" /\ IsNode(fields0[n][i]) /\ rets[n][i] = <<r>>

\* C1: in the mutating traversal, a single-child field whose child's visit
\* returned the delete outcome (None) is absent from the node afterwards, a
\* stored state different from the one the explicit-null outcome produces.
C1_DeleteRemovesField ==
  \A n \in Nodes, i \in 1..NumFields : Edited(n, i, None) => fields[n][i] = Absent

\* C2: the mutating traversal with only the generic fallback is a no-op:
\* visit(root) returns the root and every field of every node holds what it
\* held before.
C2_GenericTransformIsNoOp ==
  (mode = "transformer" /\ OnlyGenericFallback /\ status = "done")
    => ret = NodeRef(1) /\ fields = fields0

\* C3: in the mutating traversal, a single-child field whose child's visit
\* returned the explicit-null outcome (NONE_SENTINEL) is still present
\* afterwards and holds the "no value" marker, None.
C3_ExplicitNullKeepsField ==
  \A n \in Nodes, i \in 1..NumFields :
    Edited(n, i, NONE_SENTINEL) => fields[n][i] # Absent /\ fields[n][i] = None

\* C3 witness: left and right of the root both held a child, both visits
\* returned NONE_SENTINEL, and both fields are present and hold None.
C3_Witness ==
  /\ status = "done"
  /\ Edited(1, 1, NONE_SENTINEL) /\ Edited(1, 2, NONE_SENTINEL)
  /\ fields[1][1] = None /\ fields[1][2] = None

\* What one element of the original list contributes to the rebuilt list,
\* given what visit() returned for it (Absent: it was not visited).
Contribution(element, r) ==
  IF ~IsNode(element) THEN <<element>>
  ELSE IF r = None THEN <<>>
  ELSE IF r = NONE_SENTINEL THEN <<None>>
  ELSE IF IsList(r) THEN r.items
  ELSE <<r>>

RECURSIVE Contributions(_, _, _)
Contributions(items, rs, k) ==
  IF k > Len(items) THEN <<>>
  ELSE Contribution(items[k], rs[k]) \o Contributions(items, rs, k + 1)

\* _visit_list has run to its end on field i of node n.
Rebuilt(n, i) ==
  /\ mode = "transformer" /\ IsList(fields0[n][i])
  /\ Len(rets[n][i]) = Len(fields0[n][i].items)
  /\ ~InVisitList(n, i)

\* C4: the list the mutating traversal leaves in a list field is the in-order
\* concatenation of the contributions of the original elements: nothing for
\* delete, one None for explicit-null, the elements of a returned sequence,
\* the returned Node, and a non-Node element itself.
C4_ListRebuild ==
  \A n \in Nodes, i \in 1..NumFields :
    Rebuilt(n, i) =>
      fields[n][i] = List(Contributions(fields0[n][i].items, rets[n][i], 1))

\* C4 witness: a list [a, b, c] of three Nodes where b was replaced with the
\* sequence [x, y] and a and c were kept: it now holds [a, x, y, c].
C4_Witness ==
  \E n \in Nodes, i \in 1..NumFields :
    /\ Rebuilt(n, i) /\ status = "done"
    /\ Len(fields0[n][i].items) = 3
    /\ \A k \in 1..3 : IsNode(fields0[n][i].items[k])
    /\ fields[n][i] = List(<<fields0[n][i].items[1], NodeRef(X), NodeRef(Y),
                             fields0[n][i].items[3]>>)

\* The Nodes reachable from the root of the tree handed to visit().
RECURSIVE ReachableWithin(_, _)
ReachableWithin(S, depth) ==
  IF depth = 0 THEN S
  ELSE ReachableWithin(S \cup UNION {Range(ChildSeq(fields0, n)) : n \in S}, depth - 1)

Reachable == ReachableWithin({1}, MaxNodes)

\* C5: a read-only traversal with only the generic fallback ends, and has then
\* called visit exactly once on every Node reachable from the root; visit is
\* never called on a leaf value, an absent field or a non-Node list element.
C5_ReadOnlyVisitsEachNodeOnce ==
  (mode = "visitor" /\ OnlyGenericFallback) =>
    /\ \A k \in 1..Len(calls) : IsNode(calls[k]) /\ calls[k].id \in Reachable
    /\ NoDuplicates(calls)
    /\ status \in {"running", "done"}
    /\ status = "running" => ENABLED Next
    /\ status = "done" => \A n \in Reachable : NodeRef(n) \in Range(calls)

\* C5 witness: a finished read-only traversal of a tree that has a leaf in a
\* list, a leaf in a field and an absent field.
C5_Witness ==
  /\ mode = "visitor" /\ OnlyGenericFallback /\ status = "done"
  /\ Len(calls) = Cardinality(Reachable)
  /\ \E n \in Nodes : /\ IsList(fields0[n][3]) /\ Leaf \in Range(fields0[n][3].items)
                      /\ fields0[n][1] = Leaf /\ fields0[n][2] = Absent

\* The handler the resolution rule names for a node.
Expected(node) ==
  IF ClassName(node) \in registered THEN MethodName(ClassName(node)) ELSE "generic_visit"

\* C6: visit(node) runs exactly one handler, the visit_T method of the node's
\* type when there is one and the generic fallback otherwise, and returns what
\* that handler returned.  The children of a node with a visit_T method are
\* visited only if that method calls children_visit, and a visit_T method of
\* a type that does not occur never runs.
C6_DispatchResolution ==
  /\ Len(invoked) \in {Len(calls) - 1, Len(calls)}
  /\ \A k \in 1..Len(invoked) :
       /\ invoked[k].node = calls[k]
       /\ invoked[k].handler = Expected(calls[k])
       /\ invoked[k].handler # "visit_Z"
  /\ \A k \in 1..Len(returns) : returns[k].visit = returns[k].handler
  /\ \A k \in 1..Len(calls) :
       (IsNode(calls[k]) /\ ClassName(calls[k]) \in registered
          /\ ~recurse[ClassName(calls[k])])
         => \A c \in Range(ChildSeq(fields0, calls[k].id)) : NodeRef(c) \notin Range(calls)
  /\ status = "NotImplementedError" => mode = "base"

\* C6 witness: a finished traversal with visit_B and visit_Z registered, in
\* which a "B" node went to visit_B, an "A" node went to the generic fallback,
\* and a visit returned the Node its handler returned.
C6_Witness ==
  /\ status = "done" /\ registered = {"B", "Z"}
  /\ \E k \in 1..Len(invoked) : invoked[k].handler = "visit_B"
  /\ \E k \in 1..Len(invoked) : invoked[k].handler = "generic_visit"
  /\ \E k \in 1..Len(returns) : IsNode(returns[k].visit) /\ returns[k].handler = returns[k].visit

\* C7: children_visit of the base class raises NotImplementedError at once,
\* for every node: it visits no child and leaves every field as it was.
C7_BaseChildrenVisitRaises ==
  [][(mode = "base" /\ Running("children_visit"))
       => (status' = "NotImplementedError" /\ fields' = fields /\ calls' = calls
           /\ invoked' = invoked)]_vars

\* C7 witness: the traversal ended with NotImplementedError, the tree untouched.
C7_Witness ==
  mode = "base" /\ status = "NotImplementedError" /\ fields = fields0 /\ Len(calls) = 1

\* The step that ends _visit_list on field i of node n: original_list[:] = new_list.
SliceAssignStep(n, i) ==
  /\ Running("_visit_list") /\ Top.node = NodeRef(n) /\ Top.fi = i
  /\ Top.pc = "loop" /\ Top.i > Len(fields[n][i].items)
  /\ stack' = Pop
  /\ fields'[n][i] = List(Top.new_list)

\* C8: a stored list changes in one step only, the one that ends _visit_list
\* after the last element was visited; while its elements (and their
\* descendants) are visited it holds its original contents.
C8_ListReplacedWholesale ==
  [][\A n \in Nodes, i \in 1..NumFields :
       (IsList(fields[n][i]) /\ fields'[n][i] # fields[n][i]) => SliceAssignStep(n, i)]_vars

\* C8 witness: a handler runs for an element of a list while an earlier
\* element of that list was already dropped from the rebuilt list, and the
\* stored list still holds its original contents.
C8_Witness ==
  \E d \in 1..(Len(stack) - 1) :
    /\ stack[d].op = "_visit_list" /\ mode = "transformer"
    /\ stack[d].i >= 2 /\ stack[d].new_list = <<>>
    /\ Top.op \in Handlers
    /\ fields[stack[d].node.id][stack[d].fi] = fields0[stack[d].node.id][stack[d].fi]
    /\ Len(fields0[stack[d].node.id][stack[d].fi].items) >= 2

\* C9: under the generic fallback both traversals call visit in depth-first
\* order: a node's children in field order and list order, the whole subtree
\* of a child before its next sibling.  The sequence of calls is a function
\* of the tree.
C9_DepthFirstOrder ==
  (mode \in {"visitor", "transformer"} /\ OnlyGenericFallback) =>
    /\ IsPrefix(calls, Preorder(fields0, 1))
    /\ status = "done" => calls = Preorder(fields0, 1)

\* C9 witness: a finished traversal in which a grandchild of the root was
\* visited before a later child of the root, and a list held two Nodes.
C9_Witness ==
  /\ status = "done" /\ mode = "transformer" /\ OnlyGenericFallback
  /\ \E a, b, c \in Nodes :
       /\ a \in Range(ChildSeq(fields0, 1)) /\ c \in Range(ChildSeq(fields0, 1))
       /\ b \in Range(ChildSeq(fields0, a))
       /\ \E j, k \in 1..Len(calls) : j < k /\ calls[j] = NodeRef(b) /\ calls[k] = NodeRef(c)
  /\ \E n \in Nodes : Len(NodesOf(fields0[n][3])) >= 2

\* C10: in one mutating traversal visit is called at most once on a node, and
\* never on a Node that a handler returned as a replacement or in a spliced
\* sequence: those are stored in the parent's slot as they are.
C10_VisitedAtMostOnce ==
  mode = "transformer" =>
    /\ NoDuplicates(calls)
    /\ \A k \in 1..Len(calls) : IsNode(calls[k]) /\ calls[k].id \in Nodes

\* A Node of the tree that a handler returned in place of another one.
Grafted(n, i) ==
  /\ IsNode(fields0[n][i]) /\ IsNode(fields[n][i]) /\ fields[n][i] # fields0[n][i]
  /\ fields[n][i].id \in Nodes

\* C10 witness: a finished mutating traversal that stored a Node of the tree
\* in the field of another Node (and visited it once), and spliced new Nodes
\* into a list, none of them visited.
C10_Witness ==
  /\ mode = "transformer" /\ status = "done"
  /\ \E n \in Nodes, i \in 1..NumFields : Grafted(n, i) /\ fields[n][i] \in Range(calls)
  /\ \E n \in Nodes, i \in 1..NumFields :
       IsList(fields0[n][i]) /\ IsList(fields[n][i]) /\ NodeRef(Y) \in Range(fields[n][i].items)
  /\ NodeRef(X) \notin Range(calls) /\ NodeRef(Y) \notin Range(calls)

====
